---- MODULE Spec2Model ----
(***************************************************************************)
(* detect_memleaks.py of kennyfs: scan a kennyfs debug trace for memory    *)
(* allocations that are never freed.                                        *)
(*                                                                          *)
(* The model follows main() and scan(): main() scans the files named on    *)
(* the command line one after the other; scan() folds over the lines of    *)
(* one file, keeping a call stack, the table of outstanding allocations    *)
(* and four counters, and prints the report at end of input.  An uncaught  *)
(* Python exception (IndexError, KeyError, AssertionError) and the         *)
(* sys.exit(1) of the leak report both end the whole process.              *)
(*                                                                          *)
(* The diagnostics of -v and -d go to stderr and change no state of the    *)
(* scan; of them the model keeps Statistics, the numbers -v prints.         *)
(***************************************************************************)
EXTENDS Integers, Sequences, FiniteSets, TLC

(***************************************************************************)
(* Bounds of the model.                                                     *)
(***************************************************************************)
MaxLines == 4
MaxFiles == 2

Addrs == {1, 2}
Sizes == {1, 2}
FuncNames == {"foo", "bar"}

(***************************************************************************)
(* Python values.                                                           *)
(***************************************************************************)
\* Python's None, as the owning function of an un-attributed allocation.
None == "None"

\* The text printed in place of a None owning function (line 90).
NoTraceInfo == "<no trace information available>"

(***************************************************************************)
(* Lines of text.  A line is its content after line.strip(), taken apart   *)
(* into the pieces the program looks at:                                    *)
(*   ts      the line starts with a timestamp, 10 digits '.' 6 digits ' '   *)
(*   marker  what follows: "trace" for '[kfs_trace]', "mem" for            *)
(*           '[kfs_debug] kfs_memory.c:', "other" for anything else         *)
(*   name, suffix   of a trace line '<name>: <suffix>'                      *)
(*   kw      of a memory line: "malloc", "calloc", "free" or "other"        *)
(*   size    <<n>> when a decimal number stands between the keyword and   *)
(*           the address, <<>> when none does                               *)
(*   addr    <<a>> when '0x<a>' ends the line, <<>> when it does not        *)
(***************************************************************************)
TraceLine(n, s) ==
    [ts |-> FALSE, marker |-> "trace", name |-> n, suffix |-> s,
     kw |-> "other", size |-> <<>>, addr |-> <<>>]

MemLine(k, sz, a) ==
    [ts |-> FALSE, marker |-> "mem", name |-> "", suffix |-> "other",
     kw |-> k, size |-> sz, addr |-> a]

NoiseLine ==
    [ts |-> FALSE, marker |-> "other", name |-> "", suffix |-> "other",
     kw |-> "other", size |-> <<>>, addr |-> <<>>]

PlainLines ==
    {TraceLine(n, "enter") : n \in FuncNames}
      \cup {TraceLine("foo", "return"), TraceLine("foo", "other")}
      \cup {MemLine("malloc", <<s>>, <<a>>) : s \in Sizes, a \in Addrs}
      \cup {MemLine("malloc", <<>>, <<1>>)}
      \cup {MemLine("free", <<>>, <<a>>) : a \in Addrs}
      \cup {NoiseLine}

Lines == PlainLines \cup {[l EXCEPT !.ts = TRUE] : l \in PlainLines}

(***************************************************************************)
(* The line classifier: the regular expressions and prefix tests of scan().*)
(***************************************************************************)
\* RE_TIMESTAMP.match(line)
RE_TIMESTAMP_match(l) == l.ts

\* the line left as it is, the timestamp never cut off
KeepTimestamp(l) == l

\* line = line[18:] when the timestamp matches
StripTimestamp(l) == IF RE_TIMESTAMP_match(l) THEN [l EXCEPT !.ts = FALSE] ELSE l

\* line.startswith('[kfs_trace]'): false while a timestamp still leads the line
StartsWithTrace(l) == ~l.ts /\ l.marker = "trace"

\* line.startswith('[kfs_debug] kfs_memory.c:')
StartsWithMemory(l) == ~l.ts /\ l.marker = "mem"

\* stripped.endswith('enter') / stripped.endswith('return')
EndsWithEnter(l) == l.suffix = "enter"
EndsWithReturn(l) == l.suffix = "return"

\* RE_MALLOC.search(line): keyword, a decimal byte count, then an address
RE_MALLOC_search(l) ==
    l.kw \in {"malloc", "calloc"} /\ l.size # <<>> /\ l.addr # <<>>

\* RE_FREE.search(line): keyword, then an address
RE_FREE_search(l) == l.kw = "free" /\ l.addr # <<>>

(***************************************************************************)
(* State.                                                                   *)
(***************************************************************************)
VARIABLES
    pc,                 \* "main": between scans; "scan": in the loop; "exit"
    fileIdx,            \* number of files of sys.argv[1:] main() has finished
    input,              \* the lines of the current file read so far
    linenum,
    stack,
    mallocs,            \* address -> <<linenum, func, nbytes>>
    totalmallocs,
    totalbytes,
    concurrentbytes,
    maxconcurrentbytes,
    use_trace,
    stdout,             \* one report per scan that printed one
    error,              \* the uncaught exception, "none" if there is none
    exitStatus          \* <<>> while running, <<status>> once exited

scanvars ==
    <<linenum, stack, mallocs, totalmallocs, totalbytes, concurrentbytes,
      maxconcurrentbytes, use_trace>>

vars ==
    <<pc, fileIdx, input, linenum, stack, mallocs,
      totalmallocs, totalbytes, concurrentbytes, maxconcurrentbytes,
      use_trace, stdout, error, exitStatus>>

EmptyDict == [a \in {} |-> <<>>]

Max(a, b) == IF a >= b THEN a ELSE b

Init ==
    /\ pc = "main"
    /\ fileIdx = 0
    /\ input = <<>>
    /\ linenum = 0
    /\ stack = <<>>
    /\ mallocs = EmptyDict
    /\ totalmallocs = 0
    /\ totalbytes = 0
    /\ concurrentbytes = 0
    /\ maxconcurrentbytes = 0
    /\ use_trace = TRUE
    /\ stdout = <<>>
    /\ error = "none"
    /\ exitStatus = <<>>

(***************************************************************************)
(* main(): the loop over the files.                                         *)
(***************************************************************************)
\* a scan that goes on counting where the scan before it stopped, as with
\* counters kept at module level
StartScanKeepCounters ==
    /\ pc = "main"
    /\ fileIdx < MaxFiles
    /\ pc' = "scan"
    /\ input' = <<>>
    /\ linenum' = 0
    /\ stack' = <<>>
    /\ mallocs' = EmptyDict
    /\ use_trace' = TRUE
    /\ UNCHANGED <<fileIdx, stdout, error, exitStatus, totalmallocs,
                   totalbytes, concurrentbytes, maxconcurrentbytes>>

\* another file is named on the command line and scan(f, debuglevel) is
\* entered: lines 24-32
StartScan ==
    /\ pc = "main"
    /\ fileIdx < MaxFiles
    /\ pc' = "scan"
    /\ input' = <<>>
    /\ linenum' = 0
    /\ stack' = <<>>
    /\ mallocs' = EmptyDict
    /\ totalmallocs' = 0
    /\ totalbytes' = 0
    /\ concurrentbytes' = 0
    /\ maxconcurrentbytes' = 0
    /\ use_trace' = TRUE
    /\ UNCHANGED <<fileIdx, stdout, error, exitStatus>>

\* the loop of main() is exhausted (it scans at least one file, stdin when
\* none is named): the interpreter exits with status 0
MainReturns ==
    /\ pc = "main"
    /\ fileIdx >= 1
    /\ pc' = "exit"
    /\ exitStatus' = <<0>>
    /\ UNCHANGED <<fileIdx, input, scanvars, stdout, error>>

(***************************************************************************)
(* scan(): one iteration of the loop over the lines.                        *)
(***************************************************************************)
\* lines 33-35: the next line is read and counted
ReadLine(line) ==
    /\ pc = "scan"
    /\ Len(input) < MaxLines
    /\ IF input = <<>> THEN TRUE ELSE line.ts = input[1].ts
    /\ input' = Append(input, line)
    /\ linenum' = Len(input) + 1
    /\ UNCHANGED <<fileIdx, stdout>>

\* an exception that is noted while the loop goes on, as under a
\* try/except around the loop body
RaiseCaught(e) ==
    /\ pc' = "scan"
    /\ error' = e
    /\ exitStatus' = exitStatus

\* an exception nobody catches: traceback, exit status 1
Raise(e) ==
    /\ pc' = "exit"
    /\ error' = e
    /\ exitStatus' = <<1>>

\* the iteration ends and the loop goes on
Continue ==
    /\ pc' = "scan"
    /\ UNCHANGED <<error, exitStatus>>


\* the code's name for the line once the timestamp is gone (lines 39-40)
Stripped(line) == StripTimestamp(line)

\* the trace branch taken whatever use_trace says
IsTraceBranchAlways(line) == StartsWithTrace(Stripped(line))

\* line 41: the trace branch is taken
IsTraceBranch(line) == use_trace /\ StartsWithTrace(Stripped(line))

\* line 48: the memory branch is taken
IsMemoryBranch(line) == ~IsTraceBranch(line) /\ StartsWithMemory(Stripped(line))

\* lines 43-44: '<name>: enter' pushes <name>
TraceEnter(line) ==
    /\ ReadLine(line)
    /\ IsTraceBranch(line)
    /\ EndsWithEnter(Stripped(line))
    /\ stack' = Append(stack, Stripped(line).name)
    /\ Continue
    /\ UNCHANGED <<mallocs, totalmallocs, totalbytes, concurrentbytes,
                   maxconcurrentbytes, use_trace>>

\* a return that removes the oldest frame, stack.pop(0)
TraceReturnOldest(line) ==
    /\ ReadLine(line)
    /\ IsTraceBranch(line)
    /\ ~EndsWithEnter(Stripped(line))
    /\ IF ~EndsWithReturn(Stripped(line))
       THEN Raise("AssertionError") /\ stack' = stack
       ELSE IF stack = <<>>
            THEN Raise("IndexError") /\ stack' = stack
            ELSE Continue /\ stack' = Tail(stack)
    /\ UNCHANGED <<mallocs, totalmallocs, totalbytes, concurrentbytes,
                   maxconcurrentbytes, use_trace>>

\* lines 45-47: any other trace line must end in 'return' and pops the stack;
\* the assert and the pop of an empty list both raise
TraceReturn(line) ==
    /\ ReadLine(line)
    /\ IsTraceBranch(line)
    /\ ~EndsWithEnter(Stripped(line))
    /\ IF ~EndsWithReturn(Stripped(line))
       THEN Raise("AssertionError") /\ stack' = stack
       ELSE IF stack = <<>>
            THEN Raise("IndexError") /\ stack' = stack
            ELSE Continue /\ stack' = SubSeq(stack, 1, Len(stack) - 1)
    /\ UNCHANGED <<mallocs, totalmallocs, totalbytes, concurrentbytes,
                   maxconcurrentbytes, use_trace>>

\* the oldest frame taken for the newest, stack[0]
OwningFunctionBottom == IF use_trace /\ stack # <<>> THEN stack[1] ELSE None

\* lines 57-64: the owning function; stack[-1] of an empty stack raises
\* IndexError, which is caught and switches attribution off
OwningFunction == IF use_trace /\ stack # <<>> THEN stack[Len(stack)] ELSE None

\* the mark set to the current value, the max() left out
NewMaxConcurrentLast(cb) == cb

\* line 56
NewMaxConcurrent(cb) == Max(maxconcurrentbytes, cb)

\* the assertion left out, as under python -O
AssertNothing(memaddr) == TRUE

\* line 65: assert(memaddr not in mallocs)
AssertNotOutstanding(memaddr) == memaddr \notin DOMAIN mallocs

\* line 66: mallocs[memaddr] = (linenum, func, nbytes)
DictSet(d, k, v) == [a \in DOMAIN d \cup {k} |-> IF a = k THEN v ELSE d[a]]

\* the record read but not removed, as with mallocs[memaddr]
DictKeep(d, k) == d

\* line 71: mallocs.pop(memaddr), the dictionary that is left
DictPop(d, k) == [a \in DOMAIN d \ {k} |-> d[a]]

\* lines 49-67: an allocation line
Malloc(line) ==
    /\ ReadLine(line)
    /\ IsMemoryBranch(line)
    /\ RE_MALLOC_search(Stripped(line))
    /\ LET nbytes == Stripped(line).size[1]
           memaddr == Stripped(line).addr[1]
       IN  /\ totalmallocs' = totalmallocs + 1
           /\ totalbytes' = totalbytes + nbytes
           /\ concurrentbytes' = concurrentbytes + nbytes
           /\ maxconcurrentbytes' = NewMaxConcurrent(concurrentbytes + nbytes)
           /\ use_trace' = (use_trace /\ stack # <<>>)
           /\ IF AssertNotOutstanding(memaddr)
              THEN /\ mallocs' = DictSet(mallocs, memaddr,
                                         <<Len(input) + 1, OwningFunction, nbytes>>)
                   /\ Continue
              ELSE /\ mallocs' = mallocs
                   /\ Raise("AssertionError")
    /\ UNCHANGED stack

\* a free that passes over an address it does not know, as with
\* mallocs.pop(memaddr, None)
FreeIfKnown(line) ==
    /\ ReadLine(line)
    /\ IsMemoryBranch(line)
    /\ ~RE_MALLOC_search(Stripped(line))
    /\ RE_FREE_search(Stripped(line))
    /\ LET memaddr == Stripped(line).addr[1]
       IN  IF memaddr \in DOMAIN mallocs
           THEN /\ mallocs' = DictPop(mallocs, memaddr)
                /\ concurrentbytes' = concurrentbytes - mallocs[memaddr][3]
                /\ Continue
           ELSE /\ UNCHANGED <<mallocs, concurrentbytes>>
                /\ Continue
    /\ UNCHANGED <<stack, totalmallocs, totalbytes, maxconcurrentbytes, use_trace>>

\* a free that removes the record and forgets its bytes, line 72 left out
FreeKeepBytes(line) ==
    /\ ReadLine(line)
    /\ IsMemoryBranch(line)
    /\ ~RE_MALLOC_search(Stripped(line))
    /\ RE_FREE_search(Stripped(line))
    /\ LET memaddr == Stripped(line).addr[1]
       IN  IF memaddr \in DOMAIN mallocs
           THEN /\ mallocs' = DictPop(mallocs, memaddr)
                /\ concurrentbytes' = concurrentbytes
                /\ Continue
           ELSE /\ UNCHANGED <<mallocs, concurrentbytes>>
                /\ Raise("KeyError")
    /\ UNCHANGED <<stack, totalmallocs, totalbytes, maxconcurrentbytes, use_trace>>

\* lines 68-73: a free line; mallocs.pop of an absent key raises KeyError
Free(line) ==
    /\ ReadLine(line)
    /\ IsMemoryBranch(line)
    /\ ~RE_MALLOC_search(Stripped(line))
    /\ RE_FREE_search(Stripped(line))
    /\ LET memaddr == Stripped(line).addr[1]
       IN  IF memaddr \in DOMAIN mallocs
           THEN /\ mallocs' = DictPop(mallocs, memaddr)
                /\ concurrentbytes' = concurrentbytes - mallocs[memaddr][3]
                /\ Continue
           ELSE /\ UNCHANGED <<mallocs, concurrentbytes>>
                /\ Raise("KeyError")
    /\ UNCHANGED <<stack, totalmallocs, totalbytes, maxconcurrentbytes, use_trace>>

\* a loop body whose fall-through switches attribution back on at an enter
\* line
SkipResync(line) ==
    /\ ReadLine(line)
    /\ ~IsTraceBranch(line)
    /\ \/ ~StartsWithMemory(Stripped(line))
       \/ /\ ~RE_MALLOC_search(Stripped(line))
          /\ ~RE_FREE_search(Stripped(line))
    /\ Continue
    /\ use_trace' = (use_trace \/ (StartsWithTrace(Stripped(line)) /\ EndsWithEnter(Stripped(line))))
    /\ UNCHANGED <<stack, mallocs, totalmallocs, totalbytes, concurrentbytes,
                   maxconcurrentbytes>>

\* every other line falls through the loop body
Skip(line) ==
    /\ ReadLine(line)
    /\ ~IsTraceBranch(line)
    /\ \/ ~StartsWithMemory(Stripped(line))
       \/ /\ ~RE_MALLOC_search(Stripped(line))
          /\ ~RE_FREE_search(Stripped(line))
    /\ Continue
    /\ UNCHANGED <<stack, mallocs, totalmallocs, totalbytes, concurrentbytes,
                   maxconcurrentbytes, use_trace>>

(***************************************************************************)
(* scan(): the report, lines 74-96.                                         *)
(***************************************************************************)
\* Python 2 orders None before every string, and strings by their characters
NamesInOrder == <<"bar", "foo">>
FuncRank(f) == IF f = None THEN 0 ELSE CHOOSE i \in 1..Len(NamesInOrder) : NamesInOrder[i] = f

\* the order of the tuples (linenum, func, nbytes) under sorted()
TupleLess(a, b) ==
    \/ a[1] < b[1]
    \/ a[1] = b[1] /\ FuncRank(a[2]) < FuncRank(b[2])
    \/ a[1] = b[1] /\ a[2] = b[2] /\ a[3] < b[3]

RECURSIVE SortedByTuple(_, _)
SortedByTuple(d, keys) ==
    IF keys = {} THEN <<>>
    ELSE LET k == CHOOSE x \in keys : \A y \in keys : ~TupleLess(d[y], d[x])
         IN  <<d[k]>> \o SortedByTuple(d, keys \ {k})

RECURSIVE InKeyOrder(_, _)
InKeyOrder(d, keys) ==
    IF keys = {} THEN <<>>
    ELSE LET k == CHOOSE x \in keys : \A y \in keys : x <= y
         IN  <<d[k]>> \o InKeyOrder(d, keys \ {k})

\* mallocs.itervalues() as the dictionary yields it for small integer keys,
\* the sorted() left out
UnsortedValues(d) == InKeyOrder(d, DOMAIN d)

\* line 88: sorted(mallocs.itervalues())
SortedValues(d) == SortedByTuple(d, DOMAIN d)

\* lines 89-91: one printed row
Row(t) == [linenum |-> t[1], nbytes |-> t[3],
           func |-> IF t[2] = None THEN NoTraceInfo ELSE t[2]]

RECURSIVE SumBytes(_)
SumBytes(ts) == IF ts = <<>> THEN 0 ELSE ts[1][3] + SumBytes(Tail(ts))

\* lines 82-93: the table of leaks and its summary line
LeakReport(d) ==
    [kind |-> "leaks",
     rows |-> [i \in 1..Len(SortedValues(d)) |-> Row(SortedValues(d)[i])],
     count |-> Cardinality(DOMAIN d),
     bytes |-> SumBytes(SortedValues(d))]

\* line 96
NoLeakReport == [kind |-> "noleaks", rows |-> <<>>, count |-> 0, bytes |-> 0]

\* lines 74-80: the numbers -v prints before the report
Statistics == <<totalmallocs, totalbytes, maxconcurrentbytes>>

\* the table printed and the scan returning, the sys.exit(1) left out
LeaksReturn ==
    /\ pc' = "main"
    /\ exitStatus' = exitStatus
    /\ fileIdx' = fileIdx + 1

\* lines 94-96: sys.exit(1) after the table, a plain return otherwise
LeaksExit ==
    /\ pc' = "exit"
    /\ exitStatus' = <<1>>
    /\ fileIdx' = fileIdx

ScanReturns ==
    /\ pc' = "main"
    /\ exitStatus' = exitStatus
    /\ fileIdx' = fileIdx + 1

EndOfInput ==
    /\ pc = "scan"
    /\ IF DOMAIN mallocs # {}
       THEN /\ stdout' = Append(stdout, LeakReport(mallocs))
            /\ totalbytes' = SumBytes(SortedValues(mallocs))
            /\ LeaksExit
       ELSE /\ stdout' = Append(stdout, NoLeakReport)
            /\ totalbytes' = totalbytes
            /\ ScanReturns
    /\ UNCHANGED <<input, linenum, stack, mallocs, totalmallocs,
                   concurrentbytes, maxconcurrentbytes, use_trace, error>>

Next ==
    \/ StartScan
    \/ MainReturns
    \/ \E line \in Lines : TraceEnter(line)
    \/ \E line \in Lines : TraceReturn(line)
    \/ \E line \in Lines : Malloc(line)
    \/ \E line \in Lines : Free(line)
    \/ \E line \in Lines : Skip(line)
    \/ EndOfInput

Spec == Init /\ [][Next]_vars


(***************************************************************************)
(* The trace as text: what the lines read so far say, whatever the scanner *)
(* made of them.                                                            *)
(***************************************************************************)
IsEnterLine(l) == StartsWithTrace(Stripped(l)) /\ EndsWithEnter(Stripped(l))
IsReturnLine(l) == StartsWithTrace(Stripped(l)) /\ EndsWithReturn(Stripped(l))
IsBadTraceLine(l) ==
    StartsWithTrace(Stripped(l)) /\ ~EndsWithEnter(Stripped(l)) /\ ~EndsWithReturn(Stripped(l))
IsAllocLine(l) == StartsWithMemory(Stripped(l)) /\ RE_MALLOC_search(Stripped(l))
IsFreeLine(l) ==
    StartsWithMemory(Stripped(l)) /\ ~RE_MALLOC_search(Stripped(l)) /\ RE_FREE_search(Stripped(l))
AddrOf(l) == Stripped(l).addr[1]
SizeOf(l) == Stripped(l).size[1]

Last(s) == s[Len(s)]

\* the allocation lines of a trace whose address no later line frees
Unfreed(in) ==
    {i \in 1..Len(in) :
        /\ IsAllocLine(in[i])
        /\ \A j \in (i + 1)..Len(in) :
              ~(IsFreeLine(in[j]) /\ AddrOf(in[j]) = AddrOf(in[i]))}

\* the address of line i is outstanding when line i is met
OutstandingAt(in, i) ==
    \E k \in 1..(i - 1) :
        /\ IsAllocLine(in[k])
        /\ AddrOf(in[k]) = AddrOf(in[i])
        /\ \A j \in (k + 1)..(i - 1) :
              ~(IsFreeLine(in[j]) /\ AddrOf(in[j]) = AddrOf(in[i]))

\* the enter lines of a trace not matched by a return, oldest first;
\* a return met with no open enter leaves the empty stack empty
RECURSIVE OpenCalls(_)
OpenCalls(in) ==
    IF in = <<>> THEN <<>>
    ELSE LET before == OpenCalls(SubSeq(in, 1, Len(in) - 1))
         IN  IF IsEnterLine(Last(in)) THEN Append(before, Stripped(Last(in)).name)
             ELSE IF IsReturnLine(Last(in)) /\ before # <<>>
                  THEN SubSeq(before, 1, Len(before) - 1)
                  ELSE before

RECURSIVE SumSizes(_, _)
SumSizes(in, idx) ==
    IF idx = {} THEN 0
    ELSE LET i == CHOOSE x \in idx : TRUE
         IN  SizeOf(in[i]) + SumSizes(in, idx \ {i})

\* bytes allocated and not yet freed after the first k lines
ConcurrentAfter(in, k) == SumSizes(in, Unfreed(SubSeq(in, 1, k)))

\* the largest of these over the whole trace
Peak(in) ==
    CHOOSE m \in {ConcurrentAfter(in, k) : k \in 0..Len(in)} :
        \A k \in 0..Len(in) : ConcurrentAfter(in, k) <= m

\* a scan has ended, by its report or by an exception, and its variables
\* still hold what it left
ScanEnded == pc = "exit" \/ (pc = "main" /\ fileIdx > 0)

\* the step reads a line
ReadsLine == pc = "scan" /\ Len(input') = Len(input) + 1


(***************************************************************************)
(* C1.  A trace in which every allocation is freed later.                   *)
(***************************************************************************)
\* every allocation is followed by a free of its address, and no address is
\* allocated while it is outstanding
AllFreedLater(in) ==
    /\ Unfreed(in) = {}
    /\ \A i \in 1..Len(in) : IsAllocLine(in[i]) => ~OutstandingAt(in, i)

\* the trace is well formed as text: every free names an outstanding
\* address and every trace line is an enter or a return
WellFormedLines(in) ==
    \A i \in 1..Len(in) :
        /\ IsFreeLine(in[i]) => OutstandingAt(in, i)
        /\ ~IsBadTraceLine(in[i])

\* C1: for every well-formed trace in which each allocation is freed later,
\* the scan reaches end of input with an empty table, reports no leaks and
\* does not exit with a non-zero status.
C1_AllFreedNoLeaks ==
    (ScanEnded /\ AllFreedLater(input) /\ WellFormedLines(input)) =>
        /\ error = "none"
        /\ DOMAIN mallocs = {}
        /\ stdout # <<>> /\ Last(stdout) = NoLeakReport
        /\ exitStatus # <<1>>

(***************************************************************************)
(* C2.  A trace with exactly one allocation, never freed.                   *)
(***************************************************************************)
\* one allocation line; every other line is an enter, a return or a line
\* the classifier does not recognize
OneAllocation(in) ==
    /\ Cardinality({i \in 1..Len(in) : IsAllocLine(in[i])}) = 1
    /\ \A i \in 1..Len(in) : ~IsFreeLine(in[i]) /\ ~IsBadTraceLine(in[i])

TheAllocation(in) == CHOOSE i \in 1..Len(in) : IsAllocLine(in[i])

\* the function on top of the call stack when line i is met
OwnerAt(in, i) ==
    LET open == OpenCalls(SubSeq(in, 1, i - 1))
    IN  IF open = <<>> THEN NoTraceInfo ELSE Last(open)

\* C2: for every trace with exactly one allocation and no free, the report
\* lists exactly one leak, with the line number of the allocation line, its
\* byte count and the function on top of the call stack at that line.
C2_OneLeakReported ==
    (ScanEnded /\ OneAllocation(input)) =>
        /\ error = "none"
        /\ stdout # <<>> /\ Last(stdout).kind = "leaks"
        /\ Last(stdout).rows =
              <<[linenum |-> TheAllocation(input),
                 nbytes |-> SizeOf(input[TheAllocation(input)]),
                 func |-> OwnerAt(input, TheAllocation(input))]>>


(***************************************************************************)
(* C3.  The report is the table at end of input.                            *)
(***************************************************************************)
RowSet(report) == {report.rows[i] : i \in 1..Len(report.rows)}

\* C3: when a scan reaches end of input without an error, its report has
\* exactly one entry for each allocation line whose address no later line
\* frees, and no other entry: the entries are the records of the table.
C3_ReportIsOutstandingTable ==
    (ScanEnded /\ error = "none") =>
        /\ stdout # <<>>
        /\ Len(Last(stdout).rows) = Cardinality(Unfreed(input))
        /\ {r.linenum : r \in RowSet(Last(stdout))} = Unfreed(input)
        /\ \A r \in RowSet(Last(stdout)) : r.nbytes = SizeOf(input[r.linenum])
        /\ RowSet(Last(stdout)) = {Row(mallocs[a]) : a \in DOMAIN mallocs}
        /\ Last(stdout).count = Cardinality(DOMAIN mallocs)

\* a report that lists a leak of a trace in which another allocation was freed
C3_Witness ==
    /\ ScanEnded /\ error = "none"
    /\ Last(stdout).kind = "leaks"
    /\ \E i, j \in 1..Len(input) : i < j /\ IsAllocLine(input[i]) /\ IsFreeLine(input[j])
    /\ Cardinality(Unfreed(input)) = 1

(***************************************************************************)
(* C4.  Duplicate allocations.                                              *)
(***************************************************************************)
\* C4: an allocation line raises the duplicate-allocation error exactly when
\* its address is in the table; the error leaves the table as it was, ends
\* the process with status 1 and prints no report; otherwise the record is
\* inserted under its address and the scan goes on.
C4_DuplicateAllocation ==
    [][(ReadsLine /\ IsAllocLine(Last(input'))) =>
          LET a == AddrOf(Last(input'))
          IN  /\ (error' = "AssertionError") <=> (a \in DOMAIN mallocs)
              /\ a \in DOMAIN mallocs =>
                    /\ mallocs' = mallocs
                    /\ pc' = "exit" /\ exitStatus' = <<1>>
                    /\ stdout' = stdout
              /\ a \notin DOMAIN mallocs =>
                    /\ pc' = "scan" /\ error' = "none"
                    /\ DOMAIN mallocs' = DOMAIN mallocs \cup {a}
                    /\ mallocs'[a][1] = Len(input')
                    /\ mallocs'[a][3] = SizeOf(Last(input'))
                    /\ \A b \in DOMAIN mallocs : mallocs'[b] = mallocs[b]]_vars

\* an address allocated, freed and allocated again, then allocated once more
C4_Witness ==
    /\ error = "AssertionError"
    /\ Len(input) = 4
    /\ IsAllocLine(input[1]) /\ IsFreeLine(input[2])
    /\ IsAllocLine(input[3]) /\ IsAllocLine(input[4])
    /\ AddrOf(input[1]) = AddrOf(input[4])
    /\ AddrOf(input[2]) = AddrOf(input[4])
    /\ AddrOf(input[3]) = AddrOf(input[4])
    /\ mallocs[AddrOf(input[4])][1] = 3

(***************************************************************************)
(* C5.  Unknown frees.                                                      *)
(***************************************************************************)
\* C5: a free line raises the unknown-free error exactly when its address is
\* not in the table, and the error ends the process; otherwise the free
\* removes the record of that address and no other.
C5_UnknownFree ==
    [][(ReadsLine /\ IsFreeLine(Last(input'))) =>
          LET a == AddrOf(Last(input'))
          IN  /\ (error' = "KeyError") <=> (a \notin DOMAIN mallocs)
              /\ a \notin DOMAIN mallocs =>
                    /\ mallocs' = mallocs
                    /\ pc' = "exit" /\ exitStatus' = <<1>>
                    /\ stdout' = stdout
              /\ a \in DOMAIN mallocs =>
                    /\ pc' = "scan" /\ error' = "none"
                    /\ DOMAIN mallocs' = DOMAIN mallocs \ {a}
                    /\ \A b \in DOMAIN mallocs' : mallocs'[b] = mallocs[b]]_vars

\* an address freed a second time while another record is outstanding
C5_Witness ==
    /\ error = "KeyError"
    /\ Len(input) = 4
    /\ IsAllocLine(input[1]) /\ IsAllocLine(input[2])
    /\ IsFreeLine(input[3]) /\ IsFreeLine(input[4])
    /\ AddrOf(input[3]) = AddrOf(input[2])
    /\ AddrOf(input[4]) = AddrOf(input[2])
    /\ DOMAIN mallocs = {AddrOf(input[1])}


(***************************************************************************)
(* C6.  A return met with an empty call stack.                              *)
(***************************************************************************)
\* a return line was met when no enter was open
RECURSIVE Underflowed(_)
Underflowed(in) ==
    IF in = <<>> THEN FALSE
    ELSE \/ Underflowed(SubSeq(in, 1, Len(in) - 1))
         \/ IsReturnLine(Last(in)) /\ OpenCalls(SubSeq(in, 1, Len(in) - 1)) = <<>>

\* C6: a return line processed while the call stack is empty does not abort
\* the scan, and every allocation recorded after it has no owning function.
C6_ReturnOnEmptyStackContinues ==
    /\ [][(ReadsLine /\ IsReturnLine(Last(input')) /\ stack = <<>>) =>
             (pc' = "scan" /\ error' = "none")]_vars
    /\ [](\A a \in DOMAIN mallocs :
             Underflowed(SubSeq(input, 1, mallocs[a][1])) => mallocs[a][2] = None)

(***************************************************************************)
(* C7.  The exit status.                                                    *)
(***************************************************************************)
\* C7: the exit status is zero exactly when no scan raised an error and every
\* scan ended with an empty table, so printed the no-leak report; it is
\* non-zero otherwise.
C7_ExitStatus ==
    pc = "exit" =>
        /\ exitStatus \in {<<0>>, <<1>>}
        /\ (exitStatus = <<0>>) <=>
              /\ error = "none"
              /\ DOMAIN mallocs = {}
              /\ \A i \in 1..Len(stdout) : stdout[i] = NoLeakReport

\* the process exits with status 1 on the leaks of its second file
C7_Witness ==
    /\ pc = "exit" /\ exitStatus = <<1>> /\ error = "none"
    /\ Len(stdout) = 2
    /\ stdout[1].kind = "noleaks" /\ stdout[2].kind = "leaks"

(***************************************************************************)
(* C8.  Three outcomes.                                                     *)
(***************************************************************************)
\* what the caller sees of the scan that ended: a traceback, a leak table or
\* the no-leak message
ShowsError == error # "none"
ShowsLeaks == stdout # <<>> /\ Last(stdout).kind = "leaks" /\ Len(stdout) = fileIdx + 1
ShowsNoLeaks == stdout # <<>> /\ Last(stdout).kind = "noleaks" /\ Len(stdout) = fileIdx

\* C8: a scan ends in exactly one of three outcomes; a scan that ends in an
\* error prints no report at all, and none of the reports printed before it
\* is a leak table; a scan that prints a leak table raised no error.
C8_ThreeOutcomes ==
    ScanEnded =>
        /\ ShowsError \/ ShowsLeaks \/ ShowsNoLeaks
        /\ ShowsError =>
              /\ Len(stdout) = fileIdx
              /\ \A i \in 1..Len(stdout) : stdout[i].kind = "noleaks"
        /\ ~(ShowsLeaks /\ ShowsNoLeaks)
        /\ ShowsLeaks => Last(stdout).rows # <<>>
        /\ ShowsNoLeaks => Last(stdout).rows = <<>>

\* a scan aborted by an error while an allocation was outstanding
C8_Witness ==
    /\ ScanEnded /\ error = "KeyError"
    /\ DOMAIN mallocs # {}
    /\ stdout = <<>>

(***************************************************************************)
(* C9.  The high-water mark.                                                *)
(***************************************************************************)
\* C9: in every state the high-water mark is at least the concurrent bytes,
\* and when a scan has reached end of input the mark is the largest value
\* the concurrent bytes had after any line of the trace, 0 if nothing was
\* allocated.
C9_HighWaterMark ==
    /\ maxconcurrentbytes >= concurrentbytes
    /\ (ScanEnded /\ error = "none") =>
          /\ concurrentbytes = ConcurrentAfter(input, Len(input))
          /\ maxconcurrentbytes = Peak(input)

\* a scan that ended with bytes outstanding, below the mark
C9_Witness ==
    /\ ScanEnded /\ error = "none"
    /\ concurrentbytes > 0
    /\ maxconcurrentbytes > concurrentbytes
    /\ Peak(input) = 3

(***************************************************************************)
(* C10.  The order of the report.                                           *)
(***************************************************************************)
\* C10: the entries of every report are in strictly ascending order of the
\* line number of their allocation.
C10_AscendingLineNumbers ==
    \A n \in 1..Len(stdout) :
        \A i, j \in 1..Len(stdout[n].rows) :
            i < j => stdout[n].rows[i].linenum < stdout[n].rows[j].linenum

\* a report of two leaks whose addresses were allocated in descending order
C10_Witness ==
    /\ ScanEnded /\ error = "none"
    /\ Len(Last(stdout).rows) = 2
    /\ \E a, b \in DOMAIN mallocs : a > b /\ mallocs[a][1] < mallocs[b][1]


(***************************************************************************)
(* C11.  Lines that are no event.                                           *)
(***************************************************************************)
\* the line is none of enter, return, allocation, free
IsNoEventLine(l) ==
    ~IsEnterLine(l) /\ ~IsReturnLine(l) /\ ~IsAllocLine(l) /\ ~IsFreeLine(l)

\* the step leaves the call stack, the table, the counters and the
\* attribution mode as they are, raises nothing and stays in the loop
LineIgnored ==
    /\ UNCHANGED <<stack, mallocs, totalmallocs, totalbytes, concurrentbytes,
                   maxconcurrentbytes, use_trace>>
    /\ pc' = "scan"
    /\ error' = "none"

\* C11: a line that is no well-formed enter, return, allocation or free line
\* (a trace line with neither suffix and a memory line matching neither
\* template included) is no event and no error: the scanner state is
\* unchanged and the scan goes on.
C11_UnrecognizedLineIgnored ==
    [][(ReadsLine /\ IsNoEventLine(Last(input'))) => LineIgnored]_vars

(***************************************************************************)
(* C12.  An allocation line without a byte count.                           *)
(***************************************************************************)
\* '[kfs_debug] kfs_memory.c: kfs_malloc 0x<a>': keyword and address, no size
IsSizelessAllocLine(l) ==
    /\ StartsWithMemory(Stripped(l))
    /\ Stripped(l).kw \in {"malloc", "calloc"}
    /\ Stripped(l).size = <<>>
    /\ Stripped(l).addr # <<>>

\* C12: an allocation line with an address and no byte count is an
\* allocation event: it counts as an allocation and puts a record for its
\* address into the table.
C12_SizelessAllocationRecorded ==
    [][(ReadsLine /\ IsSizelessAllocLine(Last(input'))
          /\ AddrOf(Last(input')) \notin DOMAIN mallocs) =>
            /\ totalmallocs' = totalmallocs + 1
            /\ AddrOf(Last(input')) \in DOMAIN mallocs'
            /\ pc' = "scan" /\ error' = "none"]_vars


(***************************************************************************)
(* C13.  Several input streams.                                             *)
(***************************************************************************)
\* the state in which a scan begins
FreshScan ==
    /\ stack = <<>>
    /\ mallocs = EmptyDict
    /\ totalmallocs = 0 /\ totalbytes = 0
    /\ concurrentbytes = 0 /\ maxconcurrentbytes = 0
    /\ use_trace

\* C13: every stream is scanned, from a fresh state, whatever the streams
\* before it held and however they ended, leaks included: a scan begins
\* fresh, and a scan that reaches end of input hands back to main(), which
\* goes on to the next stream.
C13_EveryStreamScannedFresh ==
    [][/\ (pc = "main" /\ pc' = "scan") => FreshScan'
       /\ (pc = "scan" /\ pc' # "scan" /\ error' = "none") =>
             (pc' = "main" /\ fileIdx' = fileIdx + 1)]_vars


(***************************************************************************)
(* The scan as a function of the lines, for C14 and C15: what one line      *)
(* without a timestamp does to a scanner state.                             *)
(***************************************************************************)
ScannerState ==
    [stack |-> stack, mallocs |-> mallocs, totalmallocs |-> totalmallocs,
     totalbytes |-> totalbytes, concurrentbytes |-> concurrentbytes,
     maxconcurrentbytes |-> maxconcurrentbytes, use_trace |-> use_trace,
     error |-> error]

FreshState ==
    [stack |-> <<>>, mallocs |-> EmptyDict, totalmallocs |-> 0,
     totalbytes |-> 0, concurrentbytes |-> 0, maxconcurrentbytes |-> 0,
     use_trace |-> TRUE, error |-> "none"]

\* the same line without its timestamp
Plain(l) == [l EXCEPT !.ts = FALSE]

\* line p, without timestamp, met as line number n in state st
StepOn(st, p, n) ==
    IF st.use_trace /\ p.marker = "trace"
    THEN IF p.suffix = "enter"
         THEN [st EXCEPT !.stack = Append(@, p.name)]
         ELSE IF p.suffix # "return"
              THEN [st EXCEPT !.error = "AssertionError"]
              ELSE IF st.stack = <<>>
                   THEN [st EXCEPT !.error = "IndexError"]
                   ELSE [st EXCEPT !.stack = SubSeq(@, 1, Len(@) - 1)]
    ELSE IF p.marker = "mem" /\ p.kw \in {"malloc", "calloc"}
              /\ p.size # <<>> /\ p.addr # <<>>
    THEN LET counted ==
                [st EXCEPT !.totalmallocs = @ + 1,
                           !.totalbytes = @ + p.size[1],
                           !.concurrentbytes = @ + p.size[1],
                           !.maxconcurrentbytes =
                               Max(@, st.concurrentbytes + p.size[1]),
                           !.use_trace = (@ /\ st.stack # <<>>)]
             func == IF st.use_trace /\ st.stack # <<>>
                     THEN st.stack[Len(st.stack)] ELSE None
         IN  IF p.addr[1] \in DOMAIN st.mallocs
             THEN [counted EXCEPT !.error = "AssertionError"]
             ELSE [counted EXCEPT !.mallocs =
                      [a \in DOMAIN st.mallocs \cup {p.addr[1]} |->
                          IF a = p.addr[1] THEN <<n, func, p.size[1]>>
                          ELSE st.mallocs[a]]]
    ELSE IF p.marker = "mem" /\ p.kw = "free" /\ p.addr # <<>>
    THEN IF p.addr[1] \in DOMAIN st.mallocs
         THEN [st EXCEPT !.mallocs =
                            [a \in DOMAIN st.mallocs \ {p.addr[1]} |-> st.mallocs[a]],
                         !.concurrentbytes = @ - st.mallocs[p.addr[1]][3]]
         ELSE [st EXCEPT !.error = "KeyError"]
    ELSE st

\* the kind of event a line is, as text
LineKind(l) ==
    IF IsEnterLine(l) THEN "enter"
    ELSE IF IsReturnLine(l) THEN "return"
    ELSE IF IsAllocLine(l) THEN "allocation"
    ELSE IF IsFreeLine(l) THEN "free"
    ELSE IF IsBadTraceLine(l) THEN "bad trace line"
    ELSE "none"

(***************************************************************************)
(* C14.  Timestamps.                                                        *)
(***************************************************************************)
\* C14: in every scanner state, a line that carries a timestamp leads to the
\* state the same line without the timestamp leads to, and is the same kind
\* of event.
C14_TimestampIgnored ==
    [][(ReadsLine /\ Last(input').ts) =>
          /\ ScannerState' = StepOn(ScannerState, Plain(Last(input')), Len(input'))
          /\ LineKind(Last(input')) = LineKind(Plain(Last(input')))]_vars

\* a timestamped allocation recorded inside a timestamped enter
C14_Witness ==
    /\ pc = "scan" /\ error = "none"
    /\ Len(input) = 2 /\ input[1].ts /\ input[2].ts
    /\ IsEnterLine(input[1]) /\ IsAllocLine(input[2])
    /\ \E a \in DOMAIN mallocs : mallocs[a] = <<2, Stripped(input[1]).name, SizeOf(input[2])>>


(***************************************************************************)
(* C15.  The scan is a function of its input.                               *)
(***************************************************************************)
\* the state a scan is in after the lines in, started fresh
RECURSIVE Replay(_)
Replay(in) ==
    IF in = <<>> THEN FreshState
    ELSE StepOn(Replay(SubSeq(in, 1, Len(in) - 1)), Plain(Last(in)), Len(in))

\* the report of a scan that ended in state st
ReportOf(st) ==
    IF DOMAIN st.mallocs # {} THEN LeakReport(st.mallocs) ELSE NoLeakReport

\* C15: the state of a scan, its outcome and its report are determined by
\* the lines it has read: every scan of the same lines, the first of the
\* process or a later one, is in the same state after each line and ends
\* with the same report and statistics.
C15_ScanIsFunctionOfInput ==
    /\ (pc = "scan" \/ error # "none") => ScannerState = Replay(input)
    /\ (ScanEnded /\ error = "none") =>
          /\ mallocs = Replay(input).mallocs
          /\ Statistics[1] = Replay(input).totalmallocs
          /\ Statistics[3] = Replay(input).maxconcurrentbytes
          /\ Last(stdout) = ReportOf(Replay(input))

\* the second scan of a process has ended with a leak report
C15_Witness ==
    /\ ScanEnded /\ error = "none"
    /\ fileIdx = 1 /\ Len(stdout) = 2
    /\ Last(stdout).kind = "leaks"
    /\ Len(input) = 2


(***************************************************************************)
(* C16.  The owning function of an allocation.                              *)
(***************************************************************************)
\* an allocation line among the first k lines was met with no call open:
\* from that line on the scan attributes nothing
UnattributedAfter(in, k) ==
    \E i \in 1..k : IsAllocLine(in[i]) /\ OpenCalls(SubSeq(in, 1, i - 1)) = <<>>

\* the owner the claim gives the allocation at line i: the function on top
\* of the call stack, none only when no call is open
OwnerAsClaimed(in, i) ==
    LET open == OpenCalls(SubSeq(in, 1, i - 1))
    IN  IF open = <<>> THEN None ELSE Last(open)

\* the owner the scan gives it
OwnerAsScanned(in, i) ==
    IF UnattributedAfter(in, i) THEN None ELSE OwnerAsClaimed(in, i)

C17_StackIsOpenCalls ==
    /\ (use_trace /\ error = "none") => stack = OpenCalls(input)
    /\ error = "IndexError" =>
          /\ IsReturnLine(Last(input))
          /\ OpenCalls(SubSeq(input, 1, Len(input) - 1)) = <<>>

\* a return named foo has removed the frame of bar from above that of foo
C17_Witness ==
    /\ pc = "scan" /\ error = "none" /\ use_trace
    /\ Len(input) = 3
    /\ IsEnterLine(input[1]) /\ Stripped(input[1]).name = "foo"
    /\ IsEnterLine(input[2]) /\ Stripped(input[2]).name = "bar"
    /\ IsReturnLine(input[3]) /\ Stripped(input[3]).name = "foo"
    /\ stack = <<"foo">>

(***************************************************************************)
(* C18.  Concurrent bytes.                                                  *)
(***************************************************************************)
RECURSIVE TableBytes(_, _)
TableBytes(d, keys) ==
    IF keys = {} THEN 0
    ELSE LET k == CHOOSE x \in keys : TRUE
         IN  d[k][3] + TableBytes(d, keys \ {k})

\* C18: as long as no line raised an error, the concurrent bytes are the sum
\* of the sizes of the records in the table, hence never negative; a free
\* takes off the size its record holds; and a scan that reached end of
\* input reports that sum as the leaked bytes.
C18_ConcurrentBytesIsTableSum ==
    /\ error = "none" =>
          /\ concurrentbytes = TableBytes(mallocs, DOMAIN mallocs)
          /\ concurrentbytes >= 0
    /\ (ScanEnded /\ error = "none") => Last(stdout).bytes = concurrentbytes

\* after a free, a record of another size is left and reported
C18_Witness ==
    /\ ScanEnded /\ error = "none"
    /\ Len(input) = 3
    /\ IsAllocLine(input[1]) /\ IsAllocLine(input[2]) /\ IsFreeLine(input[3])
    /\ SizeOf(input[1]) # SizeOf(input[2])
    /\ concurrentbytes = 2
    /\ Last(stdout).bytes = 2


(***************************************************************************)
(* C19.  Un-attributed mode is absorbing.                                   *)
(***************************************************************************)
\* C19: once attribution is off it stays off for the rest of the scan, and
\* every record made from then on holds no owning function, also when its
\* line lies between an enter line and the return line of that function.
C19_UnattributedIsAbsorbing ==
    [][(pc = "scan" /\ ~use_trace) =>
          /\ ~use_trace'
          /\ \A a \in DOMAIN mallocs' \ DOMAIN mallocs : mallocs'[a][2] = None]_vars

\* attribution is off and a record was made between an enter and its return
C19_Witness ==
    /\ pc = "scan" /\ error = "none" /\ ~use_trace
    /\ Len(input) = 4
    /\ IsAllocLine(input[1]) /\ IsEnterLine(input[2])
    /\ IsAllocLine(input[3]) /\ IsReturnLine(input[4])
    /\ mallocs[AddrOf(input[3])] = <<3, None, SizeOf(input[3])>>

(***************************************************************************)
(* C20.  Trace lines in un-attributed mode.                                 *)
(***************************************************************************)
IsTraceLine(l) == StartsWithTrace(Stripped(l))

\* C20: while attribution is off, a trace line, enter or return, leaves the
\* call stack, the table and the counters unchanged and raises nothing: a
\* return met with an empty stack does not abort the scan.
C20_TraceLinesIgnoredWhenUnattributed ==
    [][(ReadsLine /\ ~use_trace /\ IsTraceLine(Last(input'))) => LineIgnored]_vars

\* attribution is off, the stack empty, and a return line was read last
C20_Witness ==
    /\ pc = "scan" /\ error = "none" /\ ~use_trace
    /\ stack = <<>>
    /\ Len(input) = 3
    /\ IsAllocLine(input[1]) /\ IsEnterLine(input[2]) /\ IsReturnLine(input[3])

====
